---- MODULE Spec2Model ----
(***************************************************************************)
(* A model of instruments/named_struct.py: Field, StringField, Padding,    *)
(* the HasFields metaclass and NamedStruct, together with the parts of the *)
(* standard struct module (native mode, no prefix character) that          *)
(* NamedStruct.pack and NamedStruct.unpack call.                           *)
(*                                                                         *)
(* Python values are tagged tuples: <<"none">>, <<"int", n>>,              *)
(* <<"bool", b>>, <<"str", chars>>, <<"bytes", bytes>>, <<"exc", kind>>.   *)
(* Text and byte strings are sequences of character codes.                 *)
(***************************************************************************)
EXTENDS Integers, Sequences, FiniteSets, TLC

VARIABLES
    n_fields_created,  \* Field.__n_fields_created, the shared birthday counter
    attrs,             \* namespace of the class body executing: name -> member
    body,              \* the statements of that class body, in source order
    iterated,          \* the member names in the order attrs.items() yielded them
    classes,           \* the classes built: name -> [_fields, _struct]
    pc,                \* where the calling program is
    x, y,              \* the caller's instances
    ret,               \* what the caller's last call returned or raised
    tpc, tload,        \* per thread: position in Field.__init__, loaded counter
    created            \* <<thread, birthday>> of every field created by a thread

vars == <<n_fields_created, attrs, body, iterated, classes, pc, x, y, ret,
          tpc, tload, created>>

\* ------------------------------------------------------------------ bounds

\* Fields per class body in the instance specification Spec.
MaxFields == 2
\* Class-body statements per class in the builder specification SpecBuild.
MaxBuildFields == 3
\* Fields per class body in the two-type specification SpecEq.
MaxEqFields == 2
\* Fields each thread creates in SpecThreads.
MaxCreate == 2

\* ------------------------------------------------------------ Python values

None == <<"none">>
PyInt(n) == <<"int", n>>
PyBool(b) == <<"bool", b>>
PyStr(s) == <<"str", s>>
PyBytes(s) == <<"bytes", s>>
Exc(kind) == <<"exc", kind>>

IsExc(v) == v[1] = "exc"
IsNumber(v) == v[1] \in {"int", "bool"}

\* The integer a bool or an int stands for (bool is a subclass of int).
NumberOf(v) == IF v[1] = "bool" THEN (IF v[2] THEN 1 ELSE 0) ELSE v[2]

\* Python's == on the values of the model: numbers compare by value
\* (True == 1), everything else by type and content.
PyEq(v, w) ==
    IF IsNumber(v) /\ IsNumber(w) THEN NumberOf(v) = NumberOf(w)
    ELSE v[1] = w[1] /\ v = w

\* Python's truth value of an object (bool(v)).
Truthy(v) ==
    CASE v[1] = "none" -> FALSE
      [] v[1] = "bool" -> v[2]
      [] v[1] = "int" -> v[2] # 0
      [] OTHER -> Len(v[2]) > 0

\* The null character '\x00', and the texts the model uses ("hi", "hi!").
Nul == 0
TextHi == <<104, 105>>
TextHiBang == <<104, 105, 33>>

\* str.rstrip('\x00')
RECURSIVE RStripNul(_)
RStripNul(s) ==
    IF Len(s) > 0 /\ s[Len(s)] = Nul THEN RStripNul(SubSeq(s, 1, Len(s) - 1))
    ELSE s

\* ------------------------------------------------------------------ fields

\* Field.__init__: the birthday is the counter's value at creation.
Field_init(birthday, count, code, strip_null) ==
    [class |-> "Field", _field_birthday |-> birthday, _fmt |-> <<count, code>>,
     _strip_null |-> strip_null, _name |-> "None"]

\* StringField.__init__: fmt '{length}s', strip_null set after the base init.
StringField_init(birthday, length, strip_null) ==
    [Field_init(birthday, length, "s", FALSE)
        EXCEPT !.class = "StringField", !._strip_null = strip_null]

\* Padding.__init__: fmt '{n_bytes}x'.
Padding_init(birthday, n_bytes) ==
    [Field_init(birthday, n_bytes, "x", FALSE) EXCEPT !.class = "Padding"]

\* A class-body member that is no Field (a method, a constant).
NotAField == [class |-> "object", _field_birthday |-> -1, _fmt |-> <<0, "-">>,
              _strip_null |-> FALSE, _name |-> "None"]

\* isinstance(member, Field)
IsField(f) == f.class \in {"Field", "StringField", "Padding"}

\* Field.is_significant: not self._fmt.endswith('x')
is_significant(f) == f._fmt[2] # "x"

\* The constructor calls a class body may make.
ScalarCodes == {"B", "?", "I"}
Ctor(kind, count, code, strip) ==
    [kind |-> kind, count |-> count, code |-> code, strip |-> strip]
ScalarCtors == {Ctor("Field", 0, c, FALSE) : c \in ScalarCodes}
StringCtors == {Ctor("StringField", n, "s", s) : n \in {2, 8}, s \in BOOLEAN}
PaddingCtors == {Ctor("Padding", 1, "x", FALSE)}
OtherMember == Ctor("other", 0, "-", FALSE)

\* The object a constructor call yields when the counter reads `birthday`.
Construct(c, birthday) ==
    CASE c.kind = "Field" -> Field_init(birthday, c.count, c.code, c.strip)
      [] c.kind = "StringField" -> StringField_init(birthday, c.count, c.strip)
      [] c.kind = "Padding" -> Padding_init(birthday, c.count)
      [] OTHER -> NotAField

\* Names of the class-body members, by position of the statement.
NameSeq == <<"a", "b", "c", "d", "e">>
UnknownName == "z"

\* ------------------------------------------- the struct module, native mode

\* Size and alignment of one item of a format code: without a prefix
\* character struct.Struct uses the platform's native sizes and alignment.
ItemSize(code) ==
    CASE code = "I" -> 4
      [] code = "Q" -> 8
      [] OTHER -> 1
Alignment(code) == ItemSize(code)

\* Bytes an item <<count, code>> occupies: 'Ns' and 'Nx' are N bytes, a
\* scalar without a count is one item.
NBytes(item) ==
    IF item[2] \in {"s", "x"} THEN item[1] ELSE ItemSize(item[2])

AlignUp(off, a) == ((off + a - 1) \div a) * a

\* Offset just past item i of the format (0 for i = 0), each item placed at
\* the next multiple of its alignment; no padding follows the last item.
RECURSIVE EndOf(_, _)
EndOf(fmt, i) ==
    IF i = 0 THEN 0
    ELSE AlignUp(EndOf(fmt, i - 1), Alignment(fmt[i][2])) + NBytes(fmt[i])

OffsetOf(fmt, i) == AlignUp(EndOf(fmt, i - 1), Alignment(fmt[i][2]))

\* struct.Struct(fmt).size
calcsize(fmt) == EndOf(fmt, Len(fmt))

\* ------------------------------------------------------- HasFields.__new__

\* Insert member item <<name, field>> into a list sorted by birthday, after
\* every item whose birthday is not greater (sorted() is stable).
RECURSIVE InsertByBirthday(_, _)
InsertByBirthday(it, s) ==
    IF s = <<>> THEN <<it>>
    ELSE IF s[Len(s)][2]._field_birthday <= it[2]._field_birthday
         THEN Append(s, it)
         ELSE Append(InsertByBirthday(it, SubSeq(s, 1, Len(s) - 1)), s[Len(s)])

\* The items left in the order the namespace yielded them.
Unsorted(items) == items

\* sorted(items, key=lambda item: item[1]._field_birthday)
RECURSIVE SortedByBirthday(_)
SortedByBirthday(items) ==
    IF items = <<>> THEN <<>>
    ELSE InsertByBirthday(items[Len(items)],
                          SortedByBirthday(SubSeq(items, 1, Len(items) - 1)))

\* [(name, member) for name, member in attrs.items() if isinstance(member, Field)]
RECURSIVE FieldItems(_)
FieldItems(items) ==
    IF items = <<>> THEN <<>>
    ELSE LET rest == FieldItems(SubSeq(items, 1, Len(items) - 1))
             last == items[Len(items)]
         IN IF IsField(last[2]) THEN Append(rest, last) ELSE rest

\* The class HasFields.__new__ returns for a class body whose namespace
\* iterates as `items`: _fields sorted by birthday with each field's name
\* bound, and _struct compiled from the fields' formats in that order.
NoClass == [_fields |-> <<>>, _struct |-> <<>>, built |-> FALSE]
HasFields_new(items) ==
    LET sorted == SortedByBirthday(FieldItems(items))
        fields == [i \in 1..Len(sorted) |->
                     [sorted[i][2] EXCEPT !._name = sorted[i][1]]]
    IN [_fields |-> fields,
        _struct |-> [i \in 1..Len(fields) |-> fields[i]._fmt],
        built |-> TRUE]

\* filter(Field.is_significant, cls._fields.values())
RECURSIVE Significant(_)
Significant(fields) ==
    IF fields = <<>> THEN <<>>
    ELSE LET rest == Significant(SubSeq(fields, 1, Len(fields) - 1))
             last == fields[Len(fields)]
         IN IF is_significant(last) THEN Append(rest, last) ELSE rest

FieldNames(fields) == [i \in 1..Len(fields) |-> fields[i]._name]

\* ------------------------------------------- struct.pack / struct.unpack

Zeros(n) == [k \in 1..n |-> 0]

\* The native (little-endian) encoding of an unsigned integer in `size` bytes.
RECURSIVE ToBytes(_, _)
ToBytes(n, size) ==
    IF size = 0 THEN <<>>
    ELSE <<n % 256>> \o ToBytes(n \div 256, size - 1)

\* Whether the unsigned integer n fits `size` bytes.
RECURSIVE Fits(_, _)
Fits(n, size) ==
    IF size = 0 THEN n = 0 ELSE n >= 0 /\ Fits(n \div 256, size - 1)

RECURSIVE FromBytes(_)
FromBytes(b) ==
    IF b = <<>> THEN 0
    ELSE b[1] + 256 * FromBytes(SubSeq(b, 2, Len(b)))

\* 's': the bytes cut or padded with nulls to exactly n bytes.
FitTo(b, n) ==
    IF Len(b) >= n THEN SubSeq(b, 1, n) ELSE b \o Zeros(n - Len(b))

\* Number of arguments a format takes: one per item that is not padding.
RECURSIVE NArgs(_)
NArgs(fmt) ==
    IF fmt = <<>> THEN 0
    ELSE NArgs(SubSeq(fmt, 1, Len(fmt) - 1))
         + (IF fmt[Len(fmt)][2] = "x" THEN 0 ELSE 1)

\* Items i.. of the format packed after `out`, taking arguments j..: the
\* bytes, or struct.error for an argument of the wrong type or out of range.
RECURSIVE PackItems(_, _, _, _, _)
PackItems(fmt, args, i, j, out) ==
    IF i > Len(fmt) THEN PyBytes(out)
    ELSE
      LET code == fmt[i][2]
          aligned == out \o Zeros(OffsetOf(fmt, i) - Len(out))
      IN CASE code = "x" ->
                PackItems(fmt, args, i + 1, j, aligned \o Zeros(fmt[i][1]))
           [] code = "s" ->
                IF args[j][1] # "bytes" THEN Exc("struct.error")
                ELSE PackItems(fmt, args, i + 1, j + 1,
                               aligned \o FitTo(args[j][2], fmt[i][1]))
           [] code = "?" ->
                PackItems(fmt, args, i + 1, j + 1,
                          aligned \o <<IF Truthy(args[j]) THEN 1 ELSE 0>>)
           [] OTHER ->
                IF ~IsNumber(args[j]) THEN Exc("struct.error")
                ELSE IF ~Fits(NumberOf(args[j]), ItemSize(code))
                     THEN Exc("struct.error")
                     ELSE PackItems(fmt, args, i + 1, j + 1,
                            aligned \o ToBytes(NumberOf(args[j]), ItemSize(code)))

\* struct.Struct(fmt).pack(*args)
struct_pack(fmt, args) ==
    IF Len(args) # NArgs(fmt) THEN Exc("struct.error")
    ELSE PackItems(fmt, args, 1, 1, <<>>)

\* The values of items 1..i of the format read from the buffer, padding and
\* alignment bytes skipped.
RECURSIVE UnpackItems(_, _, _)
UnpackItems(fmt, buf, i) ==
    IF i = 0 THEN <<>>
    ELSE
      LET code == fmt[i][2]
          raw == SubSeq(buf, OffsetOf(fmt, i) + 1, EndOf(fmt, i))
          rest == UnpackItems(fmt, buf, i - 1)
      IN CASE code = "x" -> rest
           [] code = "s" -> Append(rest, PyBytes(raw))
           [] code = "?" -> Append(rest, PyBool(raw[1] # 0))
           [] OTHER -> Append(rest, PyInt(FromBytes(raw)))

\* struct.Struct(fmt).unpack(buffer): [exc, seq]
struct_unpack(fmt, buf) ==
    IF Len(buf) # calcsize(fmt) THEN [exc |-> "struct.error", seq |-> <<>>]
    ELSE [exc |-> "", seq |-> UnpackItems(fmt, buf, Len(fmt))]

\* ---------------------------------------------------- ordered mappings

\* An OrderedDict is the sequence of its <<key, value>> items.
DictHas(d, k) == \E i \in 1..Len(d) : d[i][1] = k
DictGet(d, k) == d[CHOOSE i \in 1..Len(d) : d[i][1] = k][2]
DictSet(d, k, v) ==
    IF DictHas(d, k)
    THEN [i \in 1..Len(d) |-> IF d[i][1] = k THEN <<k, v>> ELSE d[i]]
    ELSE Append(d, <<k, v>>)
DictKeys(d) == [i \in 1..Len(d) |-> d[i][1]]
DictValues(d) == [i \in 1..Len(d) |-> d[i][2]]

\* OrderedDict.__eq__ with another OrderedDict: same length, and item by
\* item the same key and an equal value (the order counts).
OrderedDictEq(d, e) ==
    /\ Len(d) = Len(e)
    /\ \A i \in 1..Len(d) : d[i][1] = e[i][1] /\ PyEq(d[i][2], e[i][2])

\* ------------------------------------------------ descriptors, instances

HasField(cls, name) == \E i \in 1..Len(cls._fields) : cls._fields[i]._name = name
FieldNamed(cls, name) ==
    cls._fields[CHOOSE i \in 1..Len(cls._fields) : cls._fields[i]._name = name]

\* No instance (the Python variable is unbound or holds None).
NoInstance == [cls |-> "None", _values |-> <<>>, dict |-> <<>>]

\* Results of operations that may raise: exc is "" or the exception raised.
Ok(obj) == [exc |-> "", obj |-> obj]
Raised(kind, obj) == [exc |-> kind, obj |-> obj]

\* Field.__set__: obj._values[self._name] = value
Field__set__(obj, f, value) ==
    Ok([obj EXCEPT !._values = DictSet(@, f._name, value)])

\* Field.__get__: obj._values[self._name] (KeyError when the key is absent)
Field__get__(obj, f) ==
    IF DictHas(obj._values, f._name) THEN DictGet(obj._values, f._name)
    ELSE Exc("KeyError")

\* A StringField.__set__ that never strips trailing nulls.
StringField__set__NoStrip(obj, f, value) ==
    LET text == IF value[1] = "bytes" THEN PyStr(value[2]) ELSE value
    IN IF text[1] # "str" THEN Raised("AttributeError", obj)
       ELSE Field__set__(obj, f, PyBytes(text[2]))
\* StringField.__set__: bytes are decoded, trailing nulls stripped when
\* strip_null is set, and the text is stored encoded.  A value that is
\* neither bytes nor text has no rstrip/encode: AttributeError.
StringField__set__(obj, f, value) ==
    LET text == IF value[1] = "bytes" THEN PyStr(value[2]) ELSE value
    IN IF text[1] # "str" THEN Raised("AttributeError", obj)
       ELSE LET stripped == IF f._strip_null THEN RStripNul(text[2])
                            ELSE text[2]
            IN Field__set__(obj, f, PyBytes(stripped))

\* StringField.__get__: decodes the stored bytes and drops the result; the
\* method has no return statement, so the read yields None.
StringField__get__(obj, f) ==
    LET stored == Field__get__(obj, f)
    IN IF IsExc(stored) THEN stored
       ELSE IF stored[1] # "bytes" THEN Exc("AttributeError")
       ELSE None

\* setattr(obj, name, value): a Field of the class is a data descriptor and
\* takes the assignment; any other name becomes a plain instance attribute.
setattr(cls, obj, name, value) ==
    IF HasField(cls, name)
    THEN LET f == FieldNamed(cls, name)
         IN IF f.class = "StringField" THEN StringField__set__(obj, f, value)
            ELSE Field__set__(obj, f, value)
    ELSE Ok([obj EXCEPT !.dict = DictSet(@, name, value)])

\* getattr(obj, name)
getattr(cls, obj, name) ==
    IF HasField(cls, name)
    THEN LET f == FieldNamed(cls, name)
         IN IF f.class = "StringField" THEN StringField__get__(obj, f)
            ELSE Field__get__(obj, f)
    ELSE IF DictHas(obj.dict, name) THEN DictGet(obj.dict, name)
    ELSE Exc("AttributeError")

\* for field_name, value in kwargs.items(): setattr(self, field_name, value)
RECURSIVE SetAll(_, _, _, _)
SetAll(cls, res, kwargs, i) ==
    IF i > Len(kwargs) \/ res.exc # "" THEN res
    ELSE SetAll(cls, setattr(cls, res.obj, kwargs[i][1], kwargs[i][2]),
                kwargs, i + 1)

\* NamedStruct.__init__: every significant field starts at None, then the
\* keyword arguments are assigned by name.
NamedStruct_init(cls, cname, kwargs) ==
    LET sig == Significant(cls._fields)
        fresh == [cls |-> cname,
                  _values |-> [i \in 1..Len(sig) |-> <<sig[i]._name, None>>],
                  dict |-> <<>>]
    IN SetAll(cls, Ok(fresh), kwargs, 1)

\* NamedStruct._to_seq: tuple(self._values.values())
to_seq(obj) == DictValues(obj._values)

\* NamedStruct.pack: self._struct.pack(*self._to_seq())
NamedStruct_pack(cls, obj) == struct_pack(cls._struct, to_seq(obj))

\* NamedStruct._from_seq: the class called with the significant fields'
\* names zipped with the new values.
from_seq(cls, cname, new_values) ==
    LET sig == Significant(cls._fields)
        n == IF Len(sig) < Len(new_values) THEN Len(sig) ELSE Len(new_values)
    IN NamedStruct_init(cls, cname,
                        [i \in 1..n |-> <<sig[i]._name, new_values[i]>>])

\* NamedStruct.unpack: cls._from_seq(cls._struct.unpack(buffer))
NamedStruct_unpack(cls, cname, buffer) ==
    LET got == struct_unpack(cls._struct, buffer)
    IN IF got.exc # "" THEN Raised(got.exc, NoInstance)
       ELSE from_seq(cls, cname, got.seq)

\* NamedStruct.__eq__: False unless other is a NamedStruct, else the two
\* value mappings compared.
NamedStruct_eq(self, other) ==
    IF other.cls = "None" THEN FALSE
    ELSE OrderedDictEq(self._values, other._values)

\* ------------------------------------------------------ class declaration

ClassNames == {"Foo", "Bar"}

\* The class whose body is executing: Foo first, Bar after it.
CurClass == IF classes["Foo"].built THEN "Bar" ELSE "Foo"

\* The iteration orders attrs.items() may have: every order of the members.
ItemOrders(ns) ==
    LET n == Cardinality(DOMAIN ns)
    IN {[i \in 1..n |-> <<p[i], ns[p[i]]>>] :
          p \in {q \in [1..n -> DOMAIN ns] :
                   \A i, j \in 1..n : i # j => q[i] # q[j]}}

\* One statement of a class body, `name = ctor(...)`: creates the member
\* (Field.__init__ takes the counter as birthday and increments it) and
\* binds it in the class namespace.
DeclareMember(ctors, max) ==
    /\ pc = "body"
    /\ Len(body) < max
    /\ \E c \in ctors :
         LET name == NameSeq[Len(body) + 1]
         IN /\ attrs' = [n \in DOMAIN attrs \cup {name} |->
                           IF n = name THEN Construct(c, n_fields_created)
                           ELSE attrs[n]]
            /\ body' = Append(body, <<name, c>>)
            /\ n_fields_created' =
                 IF c.kind = "other" THEN n_fields_created
                 ELSE n_fields_created + 1
    /\ UNCHANGED <<iterated, classes, pc, x, y, ret, tpc, tload, created>>

\* The end of the class body: the metaclass builds the class from the
\* namespace, in whatever order the namespace iterates.
DeclaredOrder(ns, stmts) == [i \in 1..Len(stmts) |-> <<stmts[i][1], ns[stmts[i][1]]>>]

BuildClass(anyOrder) ==
    /\ pc = "body"
    /\ \E items \in (IF anyOrder THEN ItemOrders(attrs)
                     ELSE {DeclaredOrder(attrs, body)}) :
         /\ classes' = [classes EXCEPT ![CurClass] = HasFields_new(items)]
         /\ iterated' = [i \in 1..Len(items) |-> items[i][1]]
    /\ pc' = "built"
    /\ UNCHANGED <<n_fields_created, attrs, body, x, y, ret, tpc, tload, created>>

InitState ==
    /\ n_fields_created = 0
    /\ attrs = <<>>
    /\ body = <<>>
    /\ iterated = <<>>
    /\ classes = [c \in ClassNames |-> NoClass]
    /\ pc = "body"
    /\ x = NoInstance
    /\ y = NoInstance
    /\ ret = None
    /\ tpc = <<>>
    /\ tload = <<>>
    /\ created = <<>>

\* ------------------------------------------ specification of the builder

BuildCtors ==
    ScalarCtors \cup {Ctor("Field", 0, "Q", FALSE)} \cup StringCtors
    \cup PaddingCtors \cup {OtherMember}

NextBuild ==
    \/ DeclareMember(BuildCtors, MaxBuildFields)
    \/ BuildClass(TRUE)

SpecBuild == InitState /\ [][NextBuild]_vars

\* ------------------------------------------------- operations on instances

\* Values the callers pass: 1, 300, "hi", "hi!".
Vals == {PyInt(1), PyInt(300), PyStr(TextHi), PyStr(TextHiBang)}

\* Keyword arguments per constructor call.
MaxKwargs == 2

\* Names a caller may use on an instance of the class: its fields' names and
\* a name the class does not declare.
AttrNames(cls) == {cls._fields[i]._name : i \in 1..Len(cls._fields)} \cup {UnknownName}

\* The keyword-argument mappings, as the item sequences kwargs.items() may
\* yield: distinct names, at most MaxKwargs of them.
Kwargs(names, vals) ==
    {kw \in UNION {[1..k -> names \X vals] : k \in 0..MaxKwargs} :
       \A i, j \in 1..Len(kw) : i # j => kw[i][1] # kw[j][1]}

\* x = Cls(**kwargs)
NewX(need, vals) ==
    /\ pc = "built"
    /\ \A c \in need : classes[c].built
    /\ \E c \in need : \E kw \in Kwargs(AttrNames(classes[c]), vals) :
         LET r == NamedStruct_init(classes[c], c, kw)
         IN IF r.exc = ""
            THEN x' = r.obj /\ ret' = None /\ pc' = "constructed"
            ELSE x' = x /\ ret' = Exc(r.exc) /\ pc' = pc
    /\ UNCHANGED <<n_fields_created, attrs, body, iterated, classes, y, tpc, tload, created>>

\* y = Cls(**kwargs), for a second instance
NewY(need, vals) ==
    /\ pc = "constructed"
    /\ \E c \in need : \E kw \in Kwargs(AttrNames(classes[c]), vals) :
         LET r == NamedStruct_init(classes[c], c, kw)
         IN IF r.exc = ""
            THEN y' = r.obj /\ ret' = None /\ pc' = "both"
            ELSE y' = y /\ ret' = Exc(r.exc) /\ pc' = pc
    /\ UNCHANGED <<n_fields_created, attrs, body, iterated, classes, x, tpc, tload, created>>

\* x.name = value, for the name of a field of the class
SetAttr(vals) ==
    /\ pc \in {"constructed", "ready"}
    /\ \E name \in AttrNames(classes[x.cls]) \ {UnknownName} : \E v \in vals :
         LET r == setattr(classes[x.cls], x, name, v)
         IN IF r.exc = ""
            THEN x' = r.obj /\ ret' = None
            ELSE x' = x /\ ret' = Exc(r.exc)
    /\ pc' = "ready"
    /\ UNCHANGED <<n_fields_created, attrs, body, iterated, classes, y, tpc, tload, created>>

\* x.name, read, for the name of a field of the class
GetAttr ==
    /\ pc \in {"constructed", "ready"}
    /\ \E name \in AttrNames(classes[x.cls]) \ {UnknownName} :
         ret' = <<"attr", name, getattr(classes[x.cls], x, name)>>
    /\ pc' = "read"
    /\ UNCHANGED <<n_fields_created, attrs, body, iterated, classes, x, y, tpc, tload, created>>

\* buf = x.pack()
Pack ==
    /\ pc \in {"constructed", "ready"}
    /\ ret' = NamedStruct_pack(classes[x.cls], x)
    /\ pc' = "packed"
    /\ UNCHANGED <<n_fields_created, attrs, body, iterated, classes, x, y, tpc, tload, created>>

\* y = Cls.unpack(buf), for the buffer pack returned
Unpack ==
    /\ pc = "packed"
    /\ ret[1] = "bytes"
    /\ LET r == NamedStruct_unpack(classes[x.cls], x.cls, ret[2])
       IN IF r.exc = ""
          THEN y' = r.obj /\ ret' = ret /\ pc' = "unpacked"
          ELSE y' = y /\ ret' = Exc(r.exc) /\ pc' = "failed"
    /\ UNCHANGED <<n_fields_created, attrs, body, iterated, classes, x, tpc, tload, created>>

\* y.name, read from the unpacked instance
GetAttrBack ==
    /\ pc = "unpacked"
    /\ \E name \in AttrNames(classes[y.cls]) \ {UnknownName} :
         ret' = <<"attr", name, getattr(classes[y.cls], y, name)>>
    /\ pc' = "read_back"
    /\ UNCHANGED <<n_fields_created, attrs, body, iterated, classes, x, y, tpc, tload, created>>

\* Cls.unpack(x.pack()) == x
CompareBack ==
    /\ pc = "unpacked"
    /\ ret' = PyBool(NamedStruct_eq(y, x))
    /\ pc' = "compared"
    /\ UNCHANGED <<n_fields_created, attrs, body, iterated, classes, x, y, tpc, tload, created>>

\* x == y
CompareXY ==
    /\ pc = "both"
    /\ ret' = PyBool(NamedStruct_eq(x, y))
    /\ pc' = "compared"
    /\ UNCHANGED <<n_fields_created, attrs, body, iterated, classes, x, y, tpc, tload, created>>

\* x = y: the caller goes on with the unpacked instance
Rebind ==
    /\ pc = "unpacked"
    /\ x' = y
    /\ y' = NoInstance
    /\ ret' = None
    /\ pc' = "ready"
    /\ UNCHANGED <<n_fields_created, attrs, body, iterated, classes, tpc, tload, created>>

\* The next class statement begins: a fresh namespace.
NextClass ==
    /\ pc = "built"
    /\ ~classes["Bar"].built
    /\ attrs' = <<>>
    /\ body' = <<>>
    /\ pc' = "body"
    /\ UNCHANGED <<n_fields_created, iterated, classes, x, y, ret, tpc, tload, created>>

\* -------------------------------- specification of one type's instances

InstCtors ==
    {Ctor("Field", 0, "?", FALSE), Ctor("Field", 0, "I", FALSE),
     Ctor("StringField", 2, "s", FALSE), Ctor("StringField", 8, "s", TRUE),
     Ctor("StringField", 8, "s", FALSE)} \cup PaddingCtors

Next ==
    \/ DeclareMember(InstCtors, MaxFields)
    \/ BuildClass(FALSE)
    \/ NewX({"Foo"}, Vals)
    \/ SetAttr(Vals)
    \/ GetAttr
    \/ Pack
    \/ Unpack
    \/ GetAttrBack
    \/ CompareBack
    \/ Rebind

Spec == InitState /\ [][Next]_vars

\* ------------------------------------------ specification of two types

EqCtors == {Ctor("Field", 0, "B", FALSE)} \cup PaddingCtors
EqVals == {PyInt(1), PyInt(300)}

NextEq ==
    \/ DeclareMember(EqCtors, MaxEqFields)
    \/ BuildClass(FALSE)
    \/ NextClass
    \/ NewX(ClassNames, EqVals)
    \/ NewY(ClassNames, EqVals)
    \/ CompareXY

SpecEq == InitState /\ [][NextEq]_vars

\* -------------------------------- concurrent creation of fields by threads

Threads == {"t1", "t2"}

\* Line 58: self._field_birthday = Field.__n_fields_created
ReadBirthday(t) ==
    /\ tpc[t] = "line58"
    /\ Len(SelectSeq(created, LAMBDA c : c[1] = t)) < MaxCreate
    /\ created' = Append(created, <<t, n_fields_created>>)
    /\ tpc' = [tpc EXCEPT ![t] = "line59_load"]
    /\ UNCHANGED <<n_fields_created, attrs, body, iterated, classes, pc, x, y, ret, tload>>

\* Line 59, Field.__n_fields_created += 1: the load of the counter ...
LoadCounter(t) ==
    /\ tpc[t] = "line59_load"
    /\ tload' = [tload EXCEPT ![t] = n_fields_created]
    /\ tpc' = [tpc EXCEPT ![t] = "line59_store"]
    /\ UNCHANGED <<n_fields_created, attrs, body, iterated, classes, pc, x, y, ret, created>>

\* ... and the store of the loaded value plus one.
StoreCounter(t) ==
    /\ tpc[t] = "line59_store"
    /\ n_fields_created' = tload[t] + 1
    /\ tpc' = [tpc EXCEPT ![t] = "line58"]
    /\ UNCHANGED <<attrs, body, iterated, classes, pc, x, y, ret, tload, created>>

InitThreads ==
    /\ n_fields_created = 0
    /\ attrs = <<>>
    /\ body = <<>>
    /\ iterated = <<>>
    /\ classes = [c \in ClassNames |-> NoClass]
    /\ pc = "threads"
    /\ x = NoInstance
    /\ y = NoInstance
    /\ ret = None
    /\ tpc = [t \in Threads |-> "line58"]
    /\ tload = [t \in Threads |-> 0]
    /\ created = <<>>

NextThreads ==
    \E t \in Threads : ReadBirthday(t) \/ LoadCounter(t) \/ StoreCounter(t)

SpecThreads == InitThreads /\ [][NextThreads]_vars

\* ------------------------------------------------------------ the claims

Foo == classes["Foo"]
IsInstance(obj) == obj.cls # "None"
ClassOf(obj) == classes[obj.cls]
SigNames(cls) == FieldNames(Significant(cls._fields))

\* A value a field's format can hold: 0/1 or a bool for '?', bytes no
\* longer than the width for 'Ns', an unsigned integer of the item's size.
InRange(f, v) ==
    CASE f._fmt[2] = "?" -> IsNumber(v) /\ NumberOf(v) \in {0, 1}
      [] f._fmt[2] = "s" -> v[1] = "bytes" /\ Len(v[2]) <= f._fmt[1]
      [] OTHER -> IsNumber(v) /\ Fits(NumberOf(v), ItemSize(f._fmt[2]))

\* Every significant field of the instance is set to an in-range value.
AllSetInRange(obj) ==
    /\ DictKeys(obj._values) = SigNames(ClassOf(obj))
    /\ \A i \in 1..Len(obj._values) :
         InRange(FieldNamed(ClassOf(obj), obj._values[i][1]), obj._values[i][2])

\* Every StringField that keeps nulls (strip_null false) holds a value of
\* exactly its width.
UnstrippedAreFullWidth(obj) ==
    \A i \in 1..Len(obj._values) :
      LET f == FieldNamed(ClassOf(obj), obj._values[i][1])
      IN (f.class = "StringField" /\ ~f._strip_null)
           => Len(obj._values[i][2][2]) = f._fmt[1]

\* C1, as stated: for every instance whose significant fields are all set to
\* in-range values (strings shorter than the width included, strip_null true
\* or false), unpack(pack(instance)) == instance.
C1_RoundTripAnyString ==
    (pc = "compared" /\ AllSetInRange(x)) => ret = PyBool(TRUE)

\* C1, amended: for every instance whose significant fields are all set to
\* in-range values and whose StringFields with strip_null false hold values
\* of exactly the field's width, unpack(pack(instance)) == instance.
C1_RoundTrip ==
    (pc = "compared" /\ AllSetInRange(x) /\ UnstrippedAreFullWidth(x))
      => ret = PyBool(TRUE)

\* C1's case: a round trip compared equal for an instance holding a string
\* shorter than its field's width in a StringField that strips nulls.
C1_Witness ==
    /\ pc = "compared"
    /\ AllSetInRange(x) /\ UnstrippedAreFullWidth(x)
    /\ ret = PyBool(TRUE)
    /\ \E i \in 1..Len(x._values) :
         LET f == FieldNamed(ClassOf(x), x._values[i][1])
         IN f.class = "StringField" /\ f._strip_null
            /\ Len(x._values[i][2][2]) = 2 /\ f._fmt[1] = 8

\* Sum of the fields' own widths.
RECURSIVE SumOfWidths(_)
SumOfWidths(fields) ==
    IF fields = <<>> THEN 0
    ELSE SumOfWidths(SubSeq(fields, 1, Len(fields) - 1))
         + NBytes(fields[Len(fields)]._fmt)

\* C2: the byte width of a class's compiled layout equals the sum of the
\* widths of its fields, for every ordering of field widths.
C2_WidthIsSumOfWidths ==
    \A c \in ClassNames :
      classes[c].built => calcsize(classes[c]._struct) = SumOfWidths(classes[c]._fields)

\* The Field members of the class body in source order: their names, their
\* formats, and the names of those that are not padding.
RECURSIVE DeclaredFields(_)
DeclaredFields(stmts) ==
    IF stmts = <<>> THEN <<>>
    ELSE LET rest == DeclaredFields(SubSeq(stmts, 1, Len(stmts) - 1))
             last == stmts[Len(stmts)]
         IN IF last[2].kind = "other" THEN rest ELSE Append(rest, last)

DeclaredNames(stmts) ==
    [i \in 1..Len(DeclaredFields(stmts)) |-> DeclaredFields(stmts)[i][1]]
DeclaredFormats(stmts) ==
    [i \in 1..Len(DeclaredFields(stmts)) |->
       <<DeclaredFields(stmts)[i][2].count, DeclaredFields(stmts)[i][2].code>>]
DeclaredSignificant(stmts) ==
    SelectSeq(DeclaredFields(stmts), LAMBDA st : st[2].kind # "Padding")

\* C3: the field table, the compiled layout and the significant fields of a
\* built class list the fields in the order the class body declared them,
\* whatever order the namespace handed the members to the builder in.
C3_DeclarationOrder ==
    (pc = "built") =>
      /\ FieldNames(Foo._fields) = DeclaredNames(body)
      /\ Foo._struct = DeclaredFormats(body)
      /\ SigNames(Foo) =
           [i \in 1..Len(DeclaredSignificant(body)) |-> DeclaredSignificant(body)[i][1]]

\* C3's case: a class of three fields built from a namespace that iterated
\* in the reverse of the declaration order.
C3_Witness ==
    /\ pc = "built"
    /\ Len(Foo._fields) = 3
    /\ iterated = <<"c", "b", "a">>
    /\ FieldNames(Foo._fields) = <<"a", "b", "c">>

\* C4: construction with a name that is not a significant field's fails: an
\* instance a constructor call produced has no value stored under any name
\* but its significant fields'.
C4_UnknownNameRejected ==
    (pc = "constructed") =>
      /\ x.dict = <<>>
      /\ DictKeys(x._values) = SigNames(ClassOf(x))

\* C5: pack() of an instance with a significant field still unset (None)
\* raises, for every format code.
C5_PackUnsetFails ==
    (pc = "packed" /\ \E i \in 1..Len(x._values) :
                        /\ x._values[i][2][1] = "none"
                        /\ is_significant(FieldNamed(ClassOf(x), x._values[i][1])))
      => IsExc(ret)

\* C6: pack() never returns a buffer for an instance holding, in a
\* StringField, a value longer than the field's width.
C6_TooLongRejected ==
    (pc = "packed" /\ \E i \in 1..Len(x._values) :
                        LET f == FieldNamed(ClassOf(x), x._values[i][1])
                        IN /\ f.class = "StringField"
                           /\ x._values[i][2][1] = "bytes"
                           /\ Len(x._values[i][2][2]) > f._fmt[1])
      => IsExc(ret)

\* C7: reading a StringField that has been set returns the stored bytes
\* decoded to text.
C7_StringReadDecodes ==
    (pc \in {"read", "read_back"}) =>
      LET obj == IF pc = "read" THEN x ELSE y
          f == FieldNamed(ClassOf(obj), ret[2])
      IN (f.class = "StringField" /\ DictGet(obj._values, ret[2])[1] = "bytes")
           => ret[3] = PyStr(DictGet(obj._values, ret[2])[2])

\* The two mappings have the same keys and, under each key, equal values.
SameMapping(d, e) ==
    /\ {d[i][1] : i \in 1..Len(d)} = {e[i][1] : i \in 1..Len(e)}
    /\ \A i \in 1..Len(d) : \A j \in 1..Len(e) :
         d[i][1] = e[j][1] => PyEq(d[i][2], e[j][2])

\* C8: instances of the same type are equal exactly when their value
\* mappings have the same keys and values; instances of different types are
\* never equal.
C8_Equality ==
    (pc = "compared") =>
      (ret = PyBool(TRUE) <=> (x.cls = y.cls /\ SameMapping(x._values, y._values)))

\* C9: an instance's value mapping has exactly the names of its type's
\* significant fields as keys, in declaration order, and the value sequence
\* handed to the packer has one entry per significant field.
C9_KeysAreSignificantFields ==
    \A obj \in {x, y} :
      IsInstance(obj) =>
        /\ DictKeys(obj._values) = SigNames(ClassOf(obj))
        /\ Len(to_seq(obj)) = Len(Significant(ClassOf(obj)._fields))

\* C10: every field created gets a birthday of its own, and the counter has
\* grown by one per field created, under every interleaving of the threads.
C10_UniqueBirthdays ==
    /\ \A i, j \in 1..Len(created) : i # j => created[i][2] # created[j][2]
    /\ (\A t \in Threads : tpc[t] = "line58") => n_fields_created = Len(created)

====
